---- MODULE Spec2Model ----
(***************************************************************************)
(* A model of the packer machine-readable log decoder: the three nested   *)
(* resumable decoders of src/src/log.rs (PartialArtifactLog,              *)
(* PartialBuildLog, EventLog), the event types of src/lib/src/event.rs    *)
(* and the filter parser of src/bin/src/main.rs.                          *)
(*                                                                         *)
(* A line is the sequence of its comma-separated tokens (what             *)
(* line.split(",") yields); Split::next() is Head, the remaining iterator *)
(* is Tail.  Option<T> is a sequence of length 0 (None) or 1 (Some).      *)
(* A panic unwinds out of EventLog::try_decode: the model records the     *)
(* panic message and the decoder state the unwinding leaves behind, and   *)
(* no further line is decoded.                                            *)
(***************************************************************************)
EXTENDS Integers, Sequences, FiniteSets, TLC

VARIABLES
    builds,     \* EventLog.builds: build name -> PartialBuildLog
    events,     \* every Event the consumer callback has received, in order
    emitted,    \* the Events the callback received during the last call
    line,       \* the tokens of the last line passed to EventLog::try_decode
    result,     \* what the last call returned: Ok(Decoding) or a panic
    fed,        \* per (build name, artifact slot): the artifact inputs read so far
    declared,   \* per build name: the token of its first artifact-count line
    script,     \* per build name: the lines of a prepared stream
    pos,        \* per build name: how many lines of script were read
    args,       \* the values of the -f arguments read so far
    filter,     \* Opts.filter: the Filter values parsed from the -f arguments
    parsed      \* what the last Filter::from_str call returned

vars == <<builds, events, emitted, line, result, fed, declared, script, pos, args,
          filter, parsed>>

----------------------------------------------------------------------------
(* Option, Result and panics                                               *)

None == <<>>
Some(x) == <<x>>

\* Ok(Decoding::Partial | Decoding::Done)
Ok(d) == [ok |-> TRUE, val |-> d, panic |-> <<>>]

\* A panic, with its message as the pieces the format string puts together.
Panicked(parts) == [ok |-> FALSE, val |-> "", panic |-> parts]

NoCall == [ok |-> TRUE, val |-> "", panic |-> <<>>]

Range(s) == {s[i] : i \in DOMAIN s}

\* vec![None; count]
VecNone(count) == [i \in 1..count |-> None]

\* str::parse::<usize>() on the tokens the model feeds: Some(n) or None (Err).
DecimalValue == ("0" :> 0) @@ ("1" :> 1) @@ ("2" :> 2)

parse_usize(token) ==
    IF token \in DOMAIN DecimalValue THEN Some(DecimalValue[token]) ELSE None

UnwrapErr == <<"called Result::unwrap() on an Err value">>
UnwrapNone == <<"called Option::unwrap() on a None value">>
IndexOutOfBounds == <<"index out of bounds">>

\* A check whose message leaves out the tag it met.
expect_message_unnamed(structure, expected, message) ==
    IF message /= expected
    THEN <<"unexpected message in ", structure, ", expected '", expected, "'">>
    ELSE <<>>

\* expect_message: the panic message on a tag mismatch, <<>> when it returns.
expect_message(structure, expected, message) ==
    IF message /= expected
    THEN <<"unexpected message ", message, " in ", structure,
           ", expected '", expected, "'">>
    ELSE <<>>

----------------------------------------------------------------------------
(* PartialArtifactLog                                                      *)

ArtifactRoot == [tag |-> "Root"]

\* Artifact { builder_id, id, files }
Artifact(builder_id, id, files) ==
    [builder_id |-> builder_id, id |-> id, files |-> files]

\* match input.next() { "" => None, s => Some(s.to_string()) }
id_token(token) == IF token = "" THEN None ELSE Some(token)

\* A decoder that keeps the name a slot already holds (Option::get_or_insert).
replace_file_if_empty(files, file_id, file_name) ==
    IF files[file_id + 1] = None
    THEN [files EXCEPT ![file_id + 1] = Some(file_name)]
    ELSE files

\* A decoder that stores each name in the first empty slot, in arrival order.
replace_file_in_arrival_order(files, file_id, file_name) ==
    IF \E i \in DOMAIN files : files[i] = None
    THEN [files EXCEPT ![CHOOSE i \in DOMAIN files :
                           files[i] = None /\ \A j \in 1..(i - 1) : files[j] /= None]
                        = Some(file_name)]
    ELSE [files EXCEPT ![file_id + 1] = Some(file_name)]

\* files[file_id].replace(file_name.to_string()), file_id zero-based
replace_file(files, file_id, file_name) ==
    [files EXCEPT ![file_id + 1] = Some(file_name)]

\* A finalization that takes an empty slot for an empty name.
unwrap_or_default_files(files) ==
    Some([i \in DOMAIN files |-> IF files[i] = None THEN "" ELSE files[i][1]])

\* files.into_iter().map(Option::unwrap).collect(): Some(names), or None when
\* Option::unwrap panics on an empty slot.
unwrap_files(files) ==
    IF \E i \in DOMAIN files : files[i] = None
    THEN None
    ELSE Some([i \in DOMAIN files |-> files[i][1]])

\* What one PartialArtifactLog::try_decode call does:
\*   self      the decoder afterwards (the Root placeholder when the call
\*             panicked after std::mem::replace took the old state)
\*   result    Ok(Decoding) or the panic
\*   callback  the Artifacts passed to the callback, in order
ArtifactOut(self, res, called) ==
    [self |-> self, result |-> res, callback |-> called]

ArtifactDecoding(self) ==
    Ok(IF self.tag = "Done" THEN "Done" ELSE "Partial")

ArtifactStep(self) == ArtifactOut(self, ArtifactDecoding(self), <<>>)

ArtifactPanic(parts) == ArtifactOut(ArtifactRoot, Panicked(parts), <<>>)

artifact_listing_files(self, message, input) ==
    IF self.count = 0
    THEN LET e == expect_message("partial artifact", "end", message) IN
         IF e /= <<>> THEN ArtifactPanic(e)
         ELSE IF unwrap_files(self.files) = None
         THEN ArtifactPanic(UnwrapNone)
         ELSE LET artifact == Artifact(self.builder_id, self.id,
                                       unwrap_files(self.files)[1]) IN
              ArtifactOut([tag |-> "Done", artifact |-> artifact],
                          Ok("Done"), <<artifact>>)
    ELSE LET e == expect_message("partial artifact", "file", message) IN
         IF e /= <<>> THEN ArtifactPanic(e)
         ELSE IF input = <<>> THEN ArtifactPanic(<<"no file id specified">>)
         ELSE IF parse_usize(input[1]) = None THEN ArtifactPanic(UnwrapErr)
         ELSE IF Len(input) < 2 THEN ArtifactPanic(<<"no file name specified">>)
         ELSE LET file_id == parse_usize(input[1])[1] IN
              IF file_id >= Len(self.files) THEN ArtifactPanic(IndexOutOfBounds)
              ELSE ArtifactStep(
                     [tag |-> "ListingFiles", builder_id |-> self.builder_id,
                      id |-> self.id, string |-> self.string,
                      count |-> self.count - 1,
                      files |-> replace_file(self.files, file_id, input[2])])

\* A Done arm that ignores a late line and reports Done again.
artifact_done_ignore(self) == ArtifactStep(self)

\* PartialArtifactLog::Done(_) => panic!("already finished the artifact")
artifact_done(self) == ArtifactPanic(<<"already finished the artifact">>)

PartialArtifactLog_try_decode(self, tokens) ==
    IF tokens = <<>>
    THEN ArtifactOut(self,
            Panicked(<<"no message passed to partial artifact build logger">>),
            <<>>)
    ELSE
    LET message == Head(tokens)
        input == Tail(tokens)
    IN
    CASE self.tag = "Root" ->
           LET e == expect_message("partial artifact", "builder-id", message) IN
           IF e /= <<>> THEN ArtifactPanic(e)
           ELSE IF input = <<>> THEN ArtifactPanic(<<"no builder id specified">>)
           ELSE ArtifactStep([tag |-> "BuilderId", builder_id |-> input[1]])
      [] self.tag = "BuilderId" ->
           LET e == expect_message("partial artifact", "id", message) IN
           IF e /= <<>> THEN ArtifactPanic(e)
           ELSE IF input = <<>> THEN ArtifactPanic(<<"no id specified">>)
           ELSE ArtifactStep([tag |-> "Id", builder_id |-> self.builder_id,
                              id |-> id_token(input[1])])
      [] self.tag = "Id" ->
           LET e == expect_message("partial artifact", "string", message) IN
           IF e /= <<>> THEN ArtifactPanic(e)
           ELSE IF input = <<>> THEN ArtifactPanic(<<"no builder id specified">>)
           ELSE ArtifactStep([tag |-> "String", builder_id |-> self.builder_id,
                              id |-> self.id, string |-> input[1]])
      [] self.tag = "String" ->
           LET e == expect_message("partial artifact", "files-count", message) IN
           IF e /= <<>> THEN ArtifactPanic(e)
           ELSE IF input = <<>> THEN ArtifactPanic(<<"no file count specified">>)
           ELSE IF parse_usize(input[1]) = None THEN ArtifactPanic(UnwrapErr)
           ELSE LET count == parse_usize(input[1])[1] IN
                ArtifactStep([tag |-> "ListingFiles",
                              builder_id |-> self.builder_id, id |-> self.id,
                              string |-> self.string, count |-> count,
                              files |-> VecNone(count)])
      [] self.tag = "ListingFiles" -> artifact_listing_files(self, message, input)
      [] self.tag = "Done" -> artifact_done(self)

----------------------------------------------------------------------------
(* PartialBuildLog                                                         *)

BuildRoot == [tag |-> "Root"]

\* BuildLogEventKind::Artifact(artifact) and BuildLogEventKind::Done(build)
BuildLogArtifact(artifact) == [kind |-> "Artifact", artifact |-> artifact]
BuildLogDone(build) == [kind |-> "Done", build |-> build]

BuildOut(self, res, called) ==
    [self |-> self, result |-> res, callback |-> called]

BuildPanic(parts) == BuildOut(BuildRoot, Panicked(parts), <<>>)

\* artifacts[artifact_id].get_or_insert(PartialArtifactLog::Root)
get_or_insert(slot) == IF slot = None THEN ArtifactRoot ELSE slot[1]

\* A decoder with the completion test inverted.
decrement_count_on_partial(count, decoded_artifact) ==
    IF decoded_artifact = "Partial" THEN count - 1 ELSE count

\* A decoder that counts every line delegated to an artifact.
decrement_count_per_line(count, decoded_artifact) == count - 1

\* if decoded_artifact == Decoding::Done { count -= 1 }
\* (count is 0 here only for a build declared with no artifacts, whose slot
\* lookup has already panicked; the subtraction is written for count > 0)
decrement_count(count, decoded_artifact) ==
    IF decoded_artifact = "Done" THEN count - 1 ELSE count

\* A decoder that assembles the artifacts in reverse slot order.
collect_artifacts_reversed(artifacts) ==
    [i \in DOMAIN artifacts |-> artifacts[Len(artifacts) + 1 - i][1].artifact]

\* artifacts.into_iter().map(Option::unwrap).map(Artifact::try_from)
\*     .map(Result::unwrap).collect()
collect_artifacts(artifacts) ==
    [i \in DOMAIN artifacts |-> artifacts[i][1].artifact]

\* A decoder that reports the build after every line, with the artifacts
\* that are done by then.
build_finish_eager(count, artifacts, forwarded) ==
    LET done == SelectSeq(artifacts,
                          LAMBDA a : a /= None /\ a[1].tag = "Done")
        build == [artifacts |-> [i \in DOMAIN done |-> done[i][1].artifact]]
    IN
    IF count = 0
    THEN BuildOut([tag |-> "Done", build |-> build], Ok("Done"),
                  Append(forwarded, BuildLogDone(build)))
    ELSE BuildOut([tag |-> "ListingArtifacts", count |-> count,
                   artifacts |-> artifacts],
                  Ok("Partial"), Append(forwarded, BuildLogDone(build)))

build_finish(count, artifacts, forwarded) ==
    IF count = 0
    THEN IF \E i \in DOMAIN artifacts : artifacts[i] = None
         THEN BuildOut(BuildRoot, Panicked(UnwrapNone), forwarded)
         ELSE IF \E i \in DOMAIN artifacts : artifacts[i][1].tag /= "Done"
         THEN BuildOut(BuildRoot, Panicked(UnwrapErr \o <<"artifact not done yet">>),
                       forwarded)
         ELSE LET build == [artifacts |-> collect_artifacts(artifacts)] IN
              BuildOut([tag |-> "Done", build |-> build], Ok("Done"),
                       Append(forwarded, BuildLogDone(build)))
    ELSE BuildOut([tag |-> "ListingArtifacts", count |-> count,
                   artifacts |-> artifacts],
                  Ok("Partial"), forwarded)

build_listing_artifacts(self, message, input) ==
    LET e == expect_message("partial build", "artifact", message) IN
    IF e /= <<>> THEN BuildPanic(e)
    ELSE IF input = <<>> THEN BuildPanic(<<"no artifact id specified">>)
    ELSE IF parse_usize(input[1]) = None THEN BuildPanic(UnwrapErr)
    ELSE
    LET artifact_id == parse_usize(input[1])[1] IN
    IF artifact_id >= Len(self.artifacts) THEN BuildPanic(IndexOutOfBounds)
    ELSE
    LET out == PartialArtifactLog_try_decode(
                   get_or_insert(self.artifacts[artifact_id + 1]), Tail(input))
        forwarded == [k \in DOMAIN out.callback |->
                         BuildLogArtifact(out.callback[k])]
    IN
    IF ~out.result.ok THEN BuildOut(BuildRoot, out.result, forwarded)
    ELSE build_finish(decrement_count(self.count, out.result.val),
                      [self.artifacts EXCEPT ![artifact_id + 1] = Some(out.self)],
                      forwarded)

\* A Root arm that completes at once a build declared with no artifacts.
build_listing_or_done(count) ==
    IF count = 0
    THEN BuildOut([tag |-> "Done", build |-> [artifacts |-> <<>>]], Ok("Done"),
                  <<BuildLogDone([artifacts |-> <<>>])>>)
    ELSE BuildOut([tag |-> "ListingArtifacts", count |-> count,
                   artifacts |-> VecNone(count)],
                  Ok("Partial"), <<>>)

\* PartialBuildLog::ListingArtifacts { count, artifacts: vec![None; count] }
build_listing(count) ==
    BuildOut([tag |-> "ListingArtifacts", count |-> count,
              artifacts |-> VecNone(count)],
             Ok("Partial"), <<>>)

\* PartialBuildLog::Done(_) => todo!()
build_done(self) == BuildPanic(<<"not yet implemented">>)

PartialBuildLog_try_decode(self, tokens) ==
    IF tokens = <<>>
    THEN BuildOut(self,
            Panicked(<<"no message passed to partial artifact build logger">>),
            <<>>)
    ELSE
    LET message == Head(tokens)
        input == Tail(tokens)
    IN
    CASE self.tag = "Root" ->
           LET e == expect_message("partial build", "artifact-count", message) IN
           IF e /= <<>> THEN BuildPanic(e)
           ELSE IF input = <<>> THEN BuildPanic(<<"no artifact count specified">>)
           ELSE IF parse_usize(input[1]) = None THEN BuildPanic(UnwrapErr)
           ELSE build_listing(parse_usize(input[1])[1])
      [] self.tag = "ListingArtifacts" ->
           build_listing_artifacts(self, message, input)
      [] self.tag = "Done" -> build_done(self)

----------------------------------------------------------------------------
(* Event and EventLog                                                      *)

\* Event { timestamp, kind: EventKind::UI(UI::Say | Message | Error) }
UIEvent(timestamp, variant, text) ==
    [timestamp |-> timestamp, kind |-> "UI",
     ui |-> [variant |-> variant, text |-> text]]

\* Event { timestamp, kind: EventKind::Artifact { build_name, artifact } }
ArtifactEvent(timestamp, build_name, artifact) ==
    [timestamp |-> timestamp, kind |-> "Artifact",
     build_name |-> build_name, artifact |-> artifact]

\* Event { timestamp, kind: EventKind::Build { build } }
BuildEvent(timestamp, build) ==
    [timestamp |-> timestamp, kind |-> "Build", build |-> build]

\* An enrich that fills build_name from the wrong token of the line.
enrich_misnamed(timestamp, build_name, build_event) ==
    IF build_event.kind = "Artifact"
    THEN ArtifactEvent(timestamp, timestamp, build_event.artifact)
    ELSE BuildEvent(timestamp, build_event.build)

\* The closure enrich of EventLog::try_decode.
enrich(timestamp, build_name, build_event) ==
    IF build_event.kind = "Artifact"
    THEN ArtifactEvent(timestamp, build_name, build_event.artifact)
    ELSE BuildEvent(timestamp, build_event.build)

\* The UI variant a global ui sub-type selects.
ui_variant(ui_type) ==
    CASE ui_type = "say" -> Some("Say")
      [] ui_type = "message" -> Some("Message")
      [] ui_type = "error" -> Some("Error")
      [] OTHER -> None

\* A log that keeps one build at a time: a new build name replaces the map.
entry_or_insert_single(blds, build_name) ==
    IF build_name \in DOMAIN blds THEN blds ELSE (build_name :> BuildRoot)

\* self.builds.entry(build_name.to_string()).or_insert(PartialBuildLog::Root)
entry_or_insert(blds, build_name) ==
    IF build_name \in DOMAIN blds THEN blds ELSE blds @@ (build_name :> BuildRoot)

EventLogOut(blds, res, called) ==
    [builds |-> blds, result |-> res, callback |-> called]

\* A global branch that looks its (empty) build name up in the map first.
emit_global_entering(blds, timestamp, variant, text) ==
    EventLogOut(entry_or_insert(blds, ""), Ok("Partial"),
                <<UIEvent(timestamp, variant, text)>>)

\* callback(Event { timestamp, kind }); Ok(Decoding::Partial)
emit_global(blds, timestamp, variant, text) ==
    EventLogOut(blds, Ok("Partial"), <<UIEvent(timestamp, variant, text)>>)

\* A build branch that hands the build decoder's own result to the caller.
build_branch_result_forwarded(res) == res

\* log.try_decode(input, enrich).unwrap(); Ok(Decoding::Partial)
build_branch_result(res) == IF res.ok THEN Ok("Partial") ELSE res

eventlog_global(blds, timestamp, input) ==
    IF input = <<>>
    THEN EventLogOut(blds, Panicked(<<"no message type in line">>), <<>>)
    ELSE
    LET message_type == input[1] IN
    IF message_type /= "ui"
    THEN EventLogOut(blds,
            Panicked(<<"unexpected global message_type: ", message_type>>), <<>>)
    ELSE IF Len(input) < 2
    THEN EventLogOut(blds, Panicked(<<"no sub-type for ui event found">>), <<>>)
    ELSE
    LET ui_type == input[2] IN
    IF ui_variant(ui_type) = None
    THEN EventLogOut(blds,
            Panicked(<<"unexpected global ui message: ", ui_type>>), <<>>)
    ELSE IF Len(input) < 3
    THEN EventLogOut(blds, Panicked(UnwrapNone), <<>>)
    ELSE emit_global(blds, timestamp, ui_variant(ui_type)[1], input[3])

eventlog_build(blds, timestamp, build_name, input) ==
    LET entered == entry_or_insert(blds, build_name)
        out == PartialBuildLog_try_decode(entered[build_name], input)
        called == [k \in DOMAIN out.callback |->
                      enrich(timestamp, build_name, out.callback[k])]
    IN
    EventLogOut([entered EXCEPT ![build_name] = out.self],
                build_branch_result(out.result),
                called)

\* EventLog::try_decode on the tokens of one line.
EventLog_try_decode(blds, tokens) ==
    IF tokens = <<>>
    THEN EventLogOut(blds, Panicked(<<"no timestamp found">>), <<>>)
    ELSE IF Len(tokens) < 2
    THEN EventLogOut(blds, Panicked(<<"no build name found">>), <<>>)
    ELSE
    LET timestamp == tokens[1]
        build_name == tokens[2]
        input == SubSeq(tokens, 3, Len(tokens))
    IN
    IF build_name = ""
    THEN eventlog_global(blds, timestamp, input)
    ELSE eventlog_build(blds, timestamp, build_name, input)

----------------------------------------------------------------------------
(* Filter (src/bin/src/main.rs)                                            *)

FilterOk(f) == [ok |-> TRUE, val |-> f, err |-> <<>>]
FilterErr(parts) == [ok |-> FALSE, val |-> "", err |-> parts]

\* The filter values the command line is given, lower-cased.
to_lowercase(s) ==
    CASE s \in {"Builds", "BUILDS"} -> "builds"
      [] s = "Messages" -> "messages"
      [] OTHER -> s

\* A from_str that matches its argument whatever its case.
from_str_ignore_case(s) ==
    CASE to_lowercase(s) = "builds" -> FilterOk("Builds")
      [] to_lowercase(s) = "messages" -> FilterOk("Messages")
      [] to_lowercase(s) = "artifacts" -> FilterOk("Artifacts")
      [] OTHER -> FilterErr(<<s, " does not match any filtereable event">>)

\* Filter::from_str
from_str(s) ==
    CASE s = "builds" -> FilterOk("Builds")
      [] s = "messages" -> FilterOk("Messages")
      [] s = "artifacts" -> FilterOk("Artifacts")
      [] OTHER -> FilterErr(<<s, " does not match any filtereable event">>)

----------------------------------------------------------------------------
(* The input stream                                                        *)

MaxUi == 1

Timestamps == {"t1", "t2"}

\* What follows the (empty) build name on a global line.
GlobalInputs ==
    {<<"ui", t, "hello">> : t \in {"say", "message", "error", "debug"}}
    \cup {<<"ui", "say">>, <<"ui">>, <<"log", "hello">>, <<>>}

\* What follows "artifact,<slot>" on a build-scoped line.
ArtifactInputs ==
    {<<"builder-id", "pkgA">>, <<"builder-id">>, <<"id", "">>, <<"id", "a1">>,
     <<"string", "desc">>, <<"end">>, <<>>}
    \cup {<<"files-count", n>> : n \in {"0", "1", "2", "x"}}
    \cup {<<"file", "0", "out.bin">>, <<"file", "1", "out.log">>,
          <<"file", "0", "out.log">>, <<"file", "x", "out.bin">>,
          <<"file", "0">>, <<"file">>}

\* The artifact inputs of the streams that exercise several slots.
SmallArtifactInputs ==
    {<<"builder-id", "pkgA">>, <<"id", "">>, <<"id", "a1">>,
     <<"string", "desc">>, <<"files-count", "0">>, <<"files-count", "1">>,
     <<"file", "0", "out.bin">>, <<"end">>}

\* What follows the build name on a build-scoped line.
BuildInputs(counts, slots, inputs) ==
    {<<"artifact-count", n>> : n \in counts}
    \cup {<<"artifact", i>> \o a : i \in slots, a \in inputs}

GlobalLines == {<<ts, "">> \o g : ts \in Timestamps, g \in GlobalInputs}

\* The global lines of the streams that exercise several slots.
UiLines ==
    {<<"t1", "", "ui", t, "hello">> : t \in {"say", "error"}}

BuildLines(names, inputs) ==
    {<<ts, b>> \o i : ts \in Timestamps, b \in names, i \in inputs}

\* Spec: one build with one artifact slot, every kind of line.
OneSlotLines ==
    BuildLines({"b1"},
               BuildInputs({"0", "1", "x"}, {"0"}, ArtifactInputs)
               \cup {<<"artifact", "1", "builder-id", "pkgA">>,
                     <<"artifact", "x", "builder-id", "pkgA">>,
                     <<"artifact-count">>, <<"artifact">>,
                     <<"files-count", "1">>, <<>>})

\* SpecSlots: one build with up to two artifact slots.
TwoSlotLines ==
    BuildLines({"b1"}, BuildInputs({"0", "1", "2"}, {"0", "1"}, SmallArtifactInputs))

----------------------------------------------------------------------------
(* The decoder fed one line per call                                       *)

Init ==
    /\ builds = <<>>
    /\ events = <<>>
    /\ emitted = <<>>
    /\ line = <<>>
    /\ result = NoCall
    /\ fed = <<>>
    /\ declared = <<>>
    /\ script = <<>>
    /\ pos = <<>>
    /\ args = <<>>
    /\ filter = <<>>
    /\ parsed = FilterOk("")

\* The artifact slot a line addresses, as <<build name, slot index>>.
IsArtifactLine(tokens) ==
    /\ Len(tokens) >= 4
    /\ tokens[2] /= ""
    /\ tokens[3] = "artifact"
    /\ parse_usize(tokens[4]) /= None

SlotOf(tokens) == <<tokens[2], parse_usize(tokens[4])[1]>>

Record(f, tokens) ==
    IF ~IsArtifactLine(tokens) THEN f
    ELSE LET key == SlotOf(tokens)
             input == SubSeq(tokens, 5, Len(tokens))
         IN IF key \in DOMAIN f
            THEN [f EXCEPT ![key] = Append(@, input)]
            ELSE f @@ (key :> <<input>>)

IsCountLine(tokens) ==
    Len(tokens) >= 4 /\ tokens[2] /= "" /\ tokens[3] = "artifact-count"

RecordCount(f, tokens) ==
    IF IsCountLine(tokens) /\ tokens[2] \notin DOMAIN f
    THEN f @@ (tokens[2] :> tokens[4])
    ELSE f

\* One EventLog::try_decode call; a panic ends the run.
Decode(tokens) ==
    /\ result.ok
    /\ LET out == EventLog_try_decode(builds, tokens) IN
       /\ builds' = out.builds
       /\ events' = events \o out.callback
       /\ emitted' = out.callback
       /\ result' = out.result
    /\ line' = tokens
    /\ fed' = Record(fed, tokens)
    /\ declared' = RecordCount(declared, tokens)
    /\ UNCHANGED <<args, filter, parsed>>

NumUi == Cardinality({k \in DOMAIN events : events[k].kind = "UI"})

DecodeGlobal ==
    /\ NumUi < MaxUi
    /\ \E l \in GlobalLines : Decode(l)
    /\ UNCHANGED <<script, pos>>

DecodeBuild ==
    /\ \E l \in OneSlotLines : Decode(l)
    /\ UNCHANGED <<script, pos>>

DecodeNoBuildName ==
    /\ \E ts \in Timestamps : Decode(<<ts>>)
    /\ UNCHANGED <<script, pos>>

Next == DecodeGlobal \/ DecodeBuild \/ DecodeNoBuildName

\* One build with one artifact slot, global lines, every kind of line.
Spec == Init /\ [][Next]_vars

DecodeSlots ==
    /\ \E l \in TwoSlotLines : Decode(l)
    /\ UNCHANGED <<script, pos>>

DecodeUi ==
    /\ NumUi < MaxUi
    /\ \E l \in UiLines : Decode(l)
    /\ UNCHANGED <<script, pos>>

NextSlots == DecodeSlots \/ DecodeUi

\* One build with up to two artifact slots, their lines in any order.
SpecSlots == Init /\ [][NextSlots]_vars

----------------------------------------------------------------------------
(* Two prepared build streams read in any interleaving                     *)

StreamBuilds == {"b1", "b2"}

\* The lines of build b1 are stamped 1, 2, ..., those of b2 101, 102, ...
Stamp(b, k) == ToString((IF b = "b1" THEN 0 ELSE 100) + k)

StampsOf(b) == {Stamp(b, k) : k \in 1..99}

\* The artifact inputs that declare one artifact, in grammar order; files is
\* the sequence of <<slot index, name>> file lines in the order they are sent.
ArtifactLines(builder_id, id, files) ==
    <<<<"builder-id", builder_id>>, <<"id", id>>, <<"string", "desc">>,
      <<"files-count", ToString(Len(files))>>>>
    \o [k \in DOMAIN files |-> <<"file", files[k][1], files[k][2]>>]
    \o <<<<"end">>>>

CountIn(order, k, slot) == Cardinality({j \in 1..k : order[j] = slot})

\* The lines of one build: its artifact-count line, then the lines of its
\* artifacts, the k-th of them being the next line of slot order[k].
BuildStream(b, artifacts, order) ==
    <<<<Stamp(b, 1), b, "artifact-count", ToString(Len(artifacts))>>>>
    \o [k \in DOMAIN order |->
          <<Stamp(b, k + 1), b, "artifact", ToString(order[k])>>
          \o artifacts[order[k] + 1][CountIn(order, k, order[k])]]

ArtifactA == ArtifactLines("pkgA", "", <<<<"0", "out.bin">>>>)
ArtifactB == ArtifactLines("pkgB", "b7", <<>>)
ArtifactC == ArtifactLines("pkgC", "c9", <<<<"1", "c.log">>, <<"0", "c.bin">>>>)

Streams(b) ==
    { BuildStream(b, <<>>, <<>>),
      BuildStream(b, <<ArtifactA>>, <<0, 0, 0, 0, 0, 0>>),
      BuildStream(b, <<ArtifactA, ArtifactB>>, <<1, 0, 0, 1, 1, 0, 0, 1, 0, 1, 0>>),
      BuildStream(b, <<ArtifactB, ArtifactC>>, <<0, 1, 1, 1, 1, 1, 1, 1, 0, 0, 0, 0>>) }

InitStream ==
    /\ builds = <<>>
    /\ events = <<>>
    /\ emitted = <<>>
    /\ line = <<>>
    /\ result = NoCall
    /\ fed = <<>>
    /\ declared = <<>>
    /\ script \in [StreamBuilds -> UNION {Streams(b) : b \in StreamBuilds}]
    /\ \A b \in StreamBuilds : script[b] \in Streams(b)
    /\ pos = [b \in StreamBuilds |-> 0]
    /\ args = <<>>
    /\ filter = <<>>
    /\ parsed = FilterOk("")

\* The caller reads the next line of build b's stream and decodes it.
ReadLine(b) ==
    /\ pos[b] < Len(script[b])
    /\ Decode(script[b][pos[b] + 1])
    /\ pos' = [pos EXCEPT ![b] = @ + 1]
    /\ UNCHANGED script

\* A global ui line arrives between the lines of the builds.
ReadUi ==
    /\ NumUi < MaxUi
    /\ \E l \in UiLines : Decode(l)
    /\ UNCHANGED <<script, pos>>

NextStream == (\E b \in StreamBuilds : ReadLine(b)) \/ ReadUi

SpecStream == InitStream /\ [][NextStream]_vars

----------------------------------------------------------------------------
(* The -f arguments of the command line                                    *)

MaxFilters == 3

FilterArgs ==
    {"builds", "artifacts", "messages", "Builds", "BUILDS", "Messages",
     "artifact", "unknown_event", "messages ", ""}

\* clap parses each -f value with Filter::from_str and stops at the first error.
ParseFilter ==
    /\ parsed.ok
    /\ Len(filter) < MaxFilters
    /\ \E s \in FilterArgs :
         /\ args' = Append(args, s)
         /\ parsed' = from_str(s)
         /\ filter' = IF from_str(s).ok THEN Append(filter, from_str(s).val)
                      ELSE filter
    /\ UNCHANGED <<builds, events, emitted, line, result, fed, declared, script,
                   pos>>

NextCli == ParseFilter

SpecCli == Init /\ [][NextCli]_vars

----------------------------------------------------------------------------
(* The grammar of one artifact's lines, read off the inputs a slot was fed *)

IsFileInput(input) ==
    Len(input) = 3 /\ input[1] = "file" /\ parse_usize(input[2]) /= None

\* builder-id, id, string, files-count N, N file lines whose slot indexes are
\* a permutation of 0..N-1, end.
IsCompleteArtifact(inputs) ==
    /\ Len(inputs) >= 5
    /\ Len(inputs[1]) = 2 /\ inputs[1][1] = "builder-id"
    /\ Len(inputs[2]) = 2 /\ inputs[2][1] = "id"
    /\ Len(inputs[3]) = 2 /\ inputs[3][1] = "string"
    /\ Len(inputs[4]) = 2 /\ inputs[4][1] = "files-count"
    /\ parse_usize(inputs[4][2]) /= None
    /\ LET n == parse_usize(inputs[4][2])[1] IN
       /\ Len(inputs) = n + 5
       /\ \A k \in 1..n : IsFileInput(inputs[4 + k])
       /\ {parse_usize(inputs[4 + k][2])[1] : k \in 1..n} = 0..(n - 1)
       /\ inputs[n + 5] = <<"end">>

\* The Artifact such a sequence declares: the names by ascending slot index.
DeclaredArtifact(inputs) ==
    LET n == parse_usize(inputs[4][2])[1]
        lineOf(i) == CHOOSE k \in 1..n : parse_usize(inputs[4 + k][2])[1] = i
    IN [builder_id |-> inputs[1][2],
        id |-> IF inputs[2][2] = "" THEN <<>> ELSE <<inputs[2][2]>>,
        files |-> [i \in 1..n |-> inputs[4 + lineOf(i - 1)][3]]]

\* The inputs of a slot begin with a complete artifact sequence (a line sent
\* to the slot after its end line is not part of the artifact).
Declares(inputs) ==
    /\ Len(inputs) >= 5
    /\ Len(inputs[4]) = 2
    /\ parse_usize(inputs[4][2]) /= None
    /\ Len(inputs) >= parse_usize(inputs[4][2])[1] + 5
    /\ IsCompleteArtifact(SubSeq(inputs, 1, parse_usize(inputs[4][2])[1] + 5))

CompleteSlots(b) == {key \in DOMAIN fed : key[1] = b /\ Declares(fed[key])}

ArtifactEventsOf(b) ==
    {k \in DOMAIN events :
        events[k].kind = "Artifact" /\ events[k].build_name = b}

BuildNamesSeen ==
    {key[1] : key \in DOMAIN fed}
    \cup {events[k].build_name :
            k \in {j \in DOMAIN events : events[j].kind = "Artifact"}}

\* The last call read the end line that completed an artifact's sequence.
LastLineCompletes ==
    /\ IsArtifactLine(line)
    /\ SlotOf(line) \in DOMAIN fed
    /\ IsCompleteArtifact(fed[SlotOf(line)])

----------------------------------------------------------------------------
(* C1 *)

\* C1: an artifact whose complete line sequence was fed to one slot (builder-id,
\* id, string, files-count N, N file lines with slot indexes a permutation of
\* 0..N-1, end) has exactly one artifact-completion event; the event is emitted
\* by the call that read the end line, carries the declared builder_id and id
\* (an empty id token is no id) and the declared names by ascending slot index.
C1_ArtifactDecodedOnce ==
    /\ \A b \in BuildNamesSeen :
         /\ Cardinality(ArtifactEventsOf(b)) = Cardinality(CompleteSlots(b))
         /\ \A key \in CompleteSlots(b) :
              Cardinality({k \in ArtifactEventsOf(b) :
                             events[k].artifact = DeclaredArtifact(fed[key])})
              = Cardinality({other \in CompleteSlots(b) :
                               DeclaredArtifact(fed[other])
                               = DeclaredArtifact(fed[key])})
    /\ LastLineCompletes =>
         /\ emitted /= <<>>
         /\ emitted[1] = ArtifactEvent(line[1], line[2],
                                       DeclaredArtifact(fed[SlotOf(line)]))
    /\ ~LastLineCompletes =>
         \A k \in DOMAIN emitted : emitted[k].kind /= "Artifact"

\* An artifact with two files sent in descending slot order and an empty id
\* has been completed.
C1_Witness ==
    /\ LastLineCompletes
    /\ Len(fed[SlotOf(line)]) = 7
    /\ fed[SlotOf(line)][2] = <<"id", "">>
    /\ fed[SlotOf(line)][5] = <<"file", "1", "out.log">>
    /\ fed[SlotOf(line)][6] = <<"file", "0", "out.bin">>
    /\ emitted[1].kind = "Artifact"
    /\ emitted[1].artifact.files = <<"out.bin", "out.log">>
    /\ emitted[1].artifact.id = None

----------------------------------------------------------------------------
(* C2 *)

DeclaredCount(b) == parse_usize(declared[b])[1]

\* Build b declared N artifacts and each of its N slots was fed a complete
\* artifact sequence.
Satisfied(b) ==
    /\ b \in DOMAIN declared
    /\ parse_usize(declared[b]) /= None
    /\ \A i \in 0..(DeclaredCount(b) - 1) : <<b, i>> \in CompleteSlots(b)

\* The Build the lines of b declare: its artifacts in slot order.
DeclaredBuild(b) ==
    [artifacts |-> [i \in 1..DeclaredCount(b) |->
                       DeclaredArtifact(fed[<<b, i - 1>>])]]

BuildEvents == {k \in DOMAIN events : events[k].kind = "Build"}

\* The last call read the end line that completed the last outstanding
\* artifact of its build.
LastLineSatisfies ==
    LastLineCompletes /\ Satisfied(line[2])

\* C2: a build whose declared artifact count N is met by N complete artifact
\* sequences, their lines interleaved in any order, has exactly one
\* build-completion event, emitted by the call in which the N-th artifact
\* completes and holding the N artifacts in slot order.
C2_BuildDecodedOnce ==
    /\ Cardinality(BuildEvents)
       = Cardinality({b \in DOMAIN declared : Satisfied(b)})
    /\ \A b \in DOMAIN declared :
         Satisfied(b) =>
           \E k \in BuildEvents : events[k].build = DeclaredBuild(b)
    /\ LastLineSatisfies =>
         /\ emitted /= <<>>
         /\ emitted[Len(emitted)] = BuildEvent(line[1], DeclaredBuild(line[2]))
    /\ ~LastLineSatisfies =>
         \A k \in DOMAIN emitted : emitted[k].kind /= "Build"

\* C2 (amended): the same for the builds that declare at least one artifact;
\* a build that declares artifact-count 0 has no build-completion event.
C2_NonEmptyBuildDecodedOnce ==
    /\ Cardinality(BuildEvents)
       = Cardinality({b \in DOMAIN declared :
                        Satisfied(b) /\ DeclaredCount(b) > 0})
    /\ \A b \in DOMAIN declared :
         Satisfied(b) /\ DeclaredCount(b) > 0 =>
           \E k \in BuildEvents : events[k].build = DeclaredBuild(b)
    /\ LastLineSatisfies =>
         /\ emitted /= <<>>
         /\ emitted[Len(emitted)] = BuildEvent(line[1], DeclaredBuild(line[2]))
    /\ ~LastLineSatisfies =>
         \A k \in DOMAIN emitted : emitted[k].kind /= "Build"

\* A build of two different artifacts is completed by the end line of slot 0,
\* slot 1 having completed before it.
C2_Witness ==
    /\ LastLineSatisfies
    /\ DeclaredCount(line[2]) = 2
    /\ line[4] = "0"
    /\ emitted[Len(emitted)].kind = "Build"
    /\ Len(emitted[Len(emitted)].build.artifacts) = 2
    /\ emitted[Len(emitted)].build.artifacts[1]
       /= emitted[Len(emitted)].build.artifacts[2]

----------------------------------------------------------------------------
(* C3 *)

EmptyLog == [builds |-> <<>>, events |-> <<>>, ok |-> TRUE]

\* for line in lines { log.try_decode(line.split(","), callback).unwrap() }
RECURSIVE RunAll(_, _)
RunAll(log, lines) ==
    IF lines = <<>> \/ ~log.ok THEN log
    ELSE LET out == EventLog_try_decode(log.builds, Head(lines)) IN
         RunAll([builds |-> out.builds,
                 events |-> log.events \o out.callback,
                 ok |-> out.result.ok],
                Tail(lines))

\* The lines of build b read so far.
Read(b) == SubSeq(script[b], 1, pos[b])

\* The events of a sequence that the lines of build b emitted (the two
\* streams carry disjoint timestamps).
EventsFrom(evs, b) ==
    LET from(e) == e.timestamp \in StampsOf(b) IN SelectSeq(evs, from)

\* The run that reads the lines of build first, then those of build second.
Contiguous(first, second) == RunAll(EmptyLog, Read(first) \o Read(second))

\* C3: reading the lines of two builds with different names in any
\* interleaving that keeps each build's own order yields, for each build, the
\* events (kinds, contents, timestamps) and the decoder state that reading the
\* two builds one after the other yields.
C3_InterleavingInvisible ==
    \A first \in StreamBuilds : \A second \in StreamBuilds \ {first} :
        /\ builds = Contiguous(first, second).builds
        /\ \A b \in StreamBuilds :
             EventsFrom(events, b)
             = EventsFrom(Contiguous(first, second).events, b)

\* Both streams were read to the end, both builds are done, and the events
\* of the two builds alternate in the interleaved run.
C3_Witness ==
    /\ \A b \in StreamBuilds :
         /\ pos[b] = Len(script[b])
         /\ b \in DOMAIN builds
         /\ builds[b].tag = "Done"
    /\ Len(events) >= 4
    /\ events[1].timestamp \in StampsOf("b1")
    /\ events[2].timestamp \in StampsOf("b2")
    /\ events[3].timestamp \in StampsOf("b1")
    /\ events /= Contiguous("b1", "b2").events
    /\ events /= Contiguous("b2", "b1").events

----------------------------------------------------------------------------
(* C4 *)

\* The completed Artifact held by slot i of build b in the map blds, if
\* there is one.
SlotArtifactIn(blds, b, i) ==
    IF b \notin DOMAIN blds THEN None
    ELSE IF blds[b].tag = "Done"
    THEN IF i < Len(blds[b].build.artifacts)
         THEN Some(blds[b].build.artifacts[i + 1]) ELSE None
    ELSE IF blds[b].tag = "ListingArtifacts"
            /\ i < Len(blds[b].artifacts)
            /\ blds[b].artifacts[i + 1] /= None
            /\ blds[b].artifacts[i + 1][1].tag = "Done"
    THEN Some(blds[b].artifacts[i + 1][1].artifact)
    ELSE None

SlotArtifact(b, i) == SlotArtifactIn(builds, b, i)

NumSlots(b) ==
    IF builds[b].tag = "Done" THEN Len(builds[b].build.artifacts)
    ELSE IF builds[b].tag = "ListingArtifacts" THEN Len(builds[b].artifacts)
    ELSE 0

DoneSlots(b) ==
    {i \in 0..(NumSlots(b) - 1) : SlotArtifact(b, i) /= None}

DoneBuilds == {b \in DOMAIN builds : builds[b].tag = "Done"}

\* The last call was a successful build-scoped call that left the artifact it
\* addressed Done (a call on an artifact that is already Done panics).
LastCallCompletedArtifact ==
    /\ result.ok
    /\ IsArtifactLine(line)
    /\ SlotArtifact(line[2], SlotOf(line)[2]) /= None

\* The name sits in the file slot because a file line put it there.
FileWasFed(b, i, name) ==
    \E key \in DOMAIN fed : \E j \in DOMAIN fed[key] :
        /\ key[1] = b
        /\ IsFileInput(fed[key][j])
        /\ parse_usize(fed[key][j][2])[1] = i
        /\ fed[key][j][3] = name

\* C4: the consumer receives one event per global ui line, one per artifact
\* that completes and one per build that completes, and nothing else: a call
\* that leaves its artifact Partial (or panics) emits nothing, every artifact
\* event has every file slot filled, and every build event holds as many
\* artifacts as the build declared, each the completed artifact of its slot.
C4_OnlyCompletionsEmitted ==
    /\ line = <<>> => emitted = <<>>
    /\ ~result.ok => emitted = <<>>
    /\ (result.ok /\ Len(line) >= 2 /\ line[2] = "") =>
         Len(emitted) = 1 /\ emitted[1].kind = "UI"
    /\ (result.ok /\ Len(line) >= 2 /\ line[2] /= ""
            /\ ~LastCallCompletedArtifact) =>
         emitted = <<>>
    /\ LastCallCompletedArtifact =>
         /\ emitted /= <<>>
         /\ emitted[1] = ArtifactEvent(line[1], line[2],
                            SlotArtifact(line[2], SlotOf(line)[2])[1])
         /\ IF builds[line[2]].tag = "Done"
            THEN emitted = <<emitted[1],
                             BuildEvent(line[1], builds[line[2]].build)>>
            ELSE Len(emitted) = 1
    /\ result.ok =>
         /\ \A b \in DOMAIN builds :
              Cardinality(ArtifactEventsOf(b)) = Cardinality(DoneSlots(b))
         /\ Cardinality(BuildEvents) = Cardinality(DoneBuilds)
    /\ \A k \in DOMAIN events :
         events[k].kind = "Artifact" =>
           \A i \in DOMAIN events[k].artifact.files :
               FileWasFed(events[k].build_name, i - 1,
                          events[k].artifact.files[i])
    /\ \A k \in BuildEvents :
         \E b \in DOMAIN declared :
           /\ parse_usize(declared[b]) /= None
           /\ Len(events[k].build.artifacts) = DeclaredCount(b)
           /\ \A i \in DOMAIN events[k].build.artifacts :
                \E j \in 1..(k - 1) :
                    events[j] = ArtifactEvent(events[j].timestamp, b,
                                              events[k].build.artifacts[i])

\* A global line, an artifact left Partial, a completed artifact and a
\* completed build of two artifacts have all been seen by the consumer.
C4_Witness ==
    /\ LastCallCompletedArtifact
    /\ Len(emitted) = 2
    /\ emitted[2].kind = "Build"
    /\ Len(emitted[2].build.artifacts) = 2
    /\ \E k \in DOMAIN events : events[k].kind = "UI"
    /\ \E k \in DOMAIN events :
         events[k].kind = "Artifact" /\ Len(events[k].artifact.files) = 1
    /\ Len(events) = 4

----------------------------------------------------------------------------
(* C5 *)

\* The stage of the decoder of build b in the map blds.
BuildStage(blds, b) == IF b \in DOMAIN blds THEN blds[b].tag ELSE "Root"

\* The tag each stage expects (spec.md 4.1 and 4.2).
ExpectedBuildTag(stage) ==
    IF stage = "Root" THEN "artifact-count" ELSE "artifact"

ExpectedArtifactTag(decoder) ==
    CASE decoder.tag = "Root" -> "builder-id"
      [] decoder.tag = "BuilderId" -> "id"
      [] decoder.tag = "Id" -> "string"
      [] decoder.tag = "String" -> "files-count"
      [] decoder.tag = "ListingFiles" ->
           IF decoder.count = 0 THEN "end" ELSE "file"

\* The line l reaches the build decoder of its build, which is in Root or
\* ListingArtifacts, with another tag than the one that stage expects.
BuildTagMismatch(blds, l) ==
    /\ Len(l) >= 3
    /\ l[2] /= ""
    /\ BuildStage(blds, l[2]) \in {"Root", "ListingArtifacts"}
    /\ l[3] /= ExpectedBuildTag(BuildStage(blds, l[2]))

\* The artifact decoder the line l is delegated to, before the call.
AddressedArtifact(blds, l) ==
    get_or_insert(blds[l[2]].artifacts[parse_usize(l[4])[1] + 1])

\* The line l reaches an artifact decoder that is not Done with another tag
\* than the one its stage expects.
ArtifactTagMismatch(blds, l) ==
    /\ Len(l) >= 5
    /\ l[2] /= ""
    /\ BuildStage(blds, l[2]) = "ListingArtifacts"
    /\ l[3] = "artifact"
    /\ parse_usize(l[4]) /= None
    /\ parse_usize(l[4])[1] < Len(blds[l[2]].artifacts)
    /\ AddressedArtifact(blds, l).tag /= "Done"
    /\ l[5] /= ExpectedArtifactTag(AddressedArtifact(blds, l))

\* The call panicked with a message that names both tags, and emitted nothing.
FatalNaming(res, expected, actual, before, after, during) ==
    /\ ~res.ok
    /\ expected \in Range(res.panic)
    /\ actual \in Range(res.panic)
    /\ during = <<>>
    /\ after = before

\* C5: a line whose tag is not the one the current stage expects (artifact
\* decoder in any stage but Done, build decoder in Root or ListingArtifacts)
\* makes the call panic with a message naming the expected and the actual tag,
\* and the call emits no event.
C5_TagMismatchFatal ==
    [][ /\ BuildTagMismatch(builds, line') =>
             FatalNaming(result',
                         ExpectedBuildTag(BuildStage(builds, line'[2])),
                         line'[3], events, events', emitted')
        /\ ArtifactTagMismatch(builds, line') =>
             FatalNaming(result',
                         ExpectedArtifactTag(AddressedArtifact(builds, line')),
                         line'[5], events, events', emitted')
      ]_vars

\* An artifact decoder that had read all its files was sent one more file
\* line: the panic names file and end, and the call emitted nothing.
C5_Witness ==
    /\ ~result.ok
    /\ Len(line) >= 5
    /\ line[5] = "file"
    /\ result.panic = <<"unexpected message ", "file", " in ",
                        "partial artifact", ", expected '", "end", "'">>
    /\ emitted = <<>>

----------------------------------------------------------------------------
(* C6 *)

\* A global ui line of the grammar: empty build name, ui, sub-kind, text.
GlobalUiLine(l) ==
    /\ Len(l) >= 5
    /\ l[2] = ""
    /\ l[3] = "ui"
    /\ l[4] \in {"say", "message", "error"}

UiKindOf(sub_kind) ==
    CASE sub_kind = "say" -> "Say"
      [] sub_kind = "message" -> "Message"
      [] sub_kind = "error" -> "Error"

\* C6: the call that reads a global ui line (say, message or error), whatever
\* the builds' state, succeeds and emits exactly one UI event, with the line's
\* timestamp, sub-kind and text; it leaves the build mapping and every build
\* decoder as they were and adds no mapping entry.
C6_GlobalLineTouchesNoBuild ==
    [][ GlobalUiLine(line') =>
          /\ result'.ok
          /\ Len(emitted') = 1
          /\ emitted'[1].kind = "UI"
          /\ emitted'[1].timestamp = line'[1]
          /\ emitted'[1].ui = [variant |-> UiKindOf(line'[4]), text |-> line'[5]]
          /\ events' = Append(events, emitted'[1])
          /\ builds' = builds
          /\ "" \notin DOMAIN builds'
      ]_vars

\* A global error line was read while build b1 had an artifact half decoded.
C6_Witness ==
    /\ GlobalUiLine(line)
    /\ line[4] = "error"
    /\ Len(emitted) = 1
    /\ emitted[1].kind = "UI"
    /\ DOMAIN builds = {"b1"}
    /\ builds["b1"].tag = "ListingArtifacts"
    /\ Len(builds["b1"].artifacts) = 1
    /\ builds["b1"].artifacts[1] /= None
    /\ builds["b1"].artifacts[1][1].tag = "ListingFiles"

----------------------------------------------------------------------------
(* C7 *)

\* C7: the call that reads the end line completing the last outstanding
\* artifact of build X emits the artifact event, tagged with build name X,
\* and then the build event holding X's artifacts, both with the timestamp of
\* that line; every artifact event carries the name of the build whose line
\* emitted it and an artifact declared by one of that build's slots.
C7_ArtifactThenBuild ==
    /\ LastLineSatisfies =>
         /\ Len(emitted) = 2
         /\ emitted[1].kind = "Artifact"
         /\ emitted[1].build_name = line[2]
         /\ emitted[1].timestamp = line[1]
         /\ emitted[1].artifact = DeclaredArtifact(fed[SlotOf(line)])
         /\ emitted[2].kind = "Build"
         /\ emitted[2].timestamp = line[1]
         /\ emitted[2].build = DeclaredBuild(line[2])
    /\ \A k \in DOMAIN emitted :
         emitted[k].kind = "Artifact" => emitted[k].build_name = line[2]
    /\ \A k \in DOMAIN events :
         events[k].kind = "Artifact" =>
           /\ events[k].timestamp \in StampsOf(events[k].build_name)
           /\ \E key \in CompleteSlots(events[k].build_name) :
                events[k].artifact = DeclaredArtifact(fed[key])

\* Build b2 is completed by the end line of its second artifact while b1 is
\* still listing: the call emitted b2's artifact event, then its build event.
C7_Witness ==
    /\ LastLineSatisfies
    /\ line[2] = "b2"
    /\ DeclaredCount("b2") = 2
    /\ "b1" \in DOMAIN builds
    /\ builds["b1"].tag = "ListingArtifacts"
    /\ Len(emitted) = 2
    /\ emitted[1].kind = "Artifact"
    /\ emitted[1].build_name = "b2"
    /\ emitted[2].kind = "Build"

----------------------------------------------------------------------------
(* C8 *)

\* C8: every call on a well-formed line (the lines of the prepared streams
\* and global ui lines) succeeds and reports Partial, never Done; so do the
\* call in which a build completes and the calls on global lines.
C8_AlwaysPartial ==
    line /= <<>> => result.ok /\ result.val = "Partial"

\* The last call completed a build and reported Partial.
C8_Witness ==
    /\ line /= <<>>
    /\ line[2] /= ""
    /\ builds[line[2]].tag = "Done"
    /\ emitted /= <<>>
    /\ emitted[Len(emitted)].kind = "Build"
    /\ result = Ok("Partial")
    /\ NumUi = 1

----------------------------------------------------------------------------
(* C9 *)

\* C9: a filter value parses exactly when it is one of the literals builds,
\* artifacts, messages (in that exact case), to the matching Filter; any
\* other value is the error '<value> does not match any filtereable event'.
C9_FilterLiterals ==
    args /= <<>> =>
      LET s == args[Len(args)] IN
      /\ parsed.ok <=> s \in {"builds", "artifacts", "messages"}
      /\ s = "builds" => parsed.val = "Builds" /\ filter[Len(filter)] = "Builds"
      /\ s = "artifacts" =>
           parsed.val = "Artifacts" /\ filter[Len(filter)] = "Artifacts"
      /\ s = "messages" =>
           parsed.val = "Messages" /\ filter[Len(filter)] = "Messages"
      /\ ~parsed.ok =>
           parsed.err = <<s, " does not match any filtereable event">>

\* After two accepted filters, the value Builds was refused.
C9_Witness ==
    /\ Len(args) = 3
    /\ args[3] = "Builds"
    /\ Len(filter) = 2
    /\ ~parsed.ok
    /\ parsed.err = <<"Builds", " does not match any filtereable event">>

----------------------------------------------------------------------------
(* C10 *)

\* The line l is an end line for an artifact decoder that is in ListingFiles
\* with remaining count 0.
EndAtCountZero(blds, l) ==
    /\ Len(l) = 5
    /\ l[2] /= ""
    /\ BuildStage(blds, l[2]) = "ListingArtifacts"
    /\ l[3] = "artifact"
    /\ parse_usize(l[4]) /= None
    /\ parse_usize(l[4])[1] < Len(blds[l[2]].artifacts)
    /\ AddressedArtifact(blds, l).tag = "ListingFiles"
    /\ AddressedArtifact(blds, l).count = 0
    /\ l[5] = "end"

AllSlotsFilled(decoder) ==
    \A i \in DOMAIN decoder.files : decoder.files[i] /= None

\* The file lines among the inputs wrote one slot index more than once.
WroteSlotTwice(inputs) ==
    \E j \in DOMAIN inputs : \E k \in DOMAIN inputs :
        /\ j < k
        /\ IsFileInput(inputs[j])
        /\ IsFileInput(inputs[k])
        /\ inputs[j][2] = inputs[k][2]

\* The call finalized the Artifact of the decoder, passed it to the callback
\* and left the decoder Done.
Finalized(decoder, l, res, during, after) ==
    /\ res.ok
    /\ during /= <<>>
    /\ during[1].kind = "Artifact"
    /\ during[1].artifact.builder_id = decoder.builder_id
    /\ during[1].artifact.id = decoder.id
    /\ during[1].artifact.files
       = [i \in DOMAIN decoder.files |-> decoder.files[i][1]]
    /\ SlotArtifactIn(after, l[2], parse_usize(l[4])[1])
       = Some(during[1].artifact)

\* The call panicked, called no callback and left no Done decoder.
FatalEnd(l, res, during, after) ==
    /\ ~res.ok
    /\ during = <<>>
    /\ SlotArtifactIn(after, l[2], parse_usize(l[4])[1]) = None

\* C10 as stated: in ListingFiles with remaining count 0, an end line
\* finalizes the Artifact, fires the callback and moves the decoder to Done,
\* whatever file lines brought the count to 0.
C10_EndAlwaysFinalizes ==
    [][ EndAtCountZero(builds, line') =>
          Finalized(AddressedArtifact(builds, line'), line', result', emitted',
                    builds')
      ]_vars

\* C10 (amended): in ListingFiles with remaining count 0, an end line
\* finalizes the Artifact, fires the callback and moves the decoder to Done
\* when every file slot is filled; when the file lines wrote a slot index
\* more than once, a slot is still empty and the end line is fatal: the call
\* panics, fires no callback and leaves no Done decoder.
C10_EndFinalizesFilledSlots ==
    [][ EndAtCountZero(builds, line') =>
          /\ AllSlotsFilled(AddressedArtifact(builds, line'))
             <=> ~WroteSlotTwice(fed[SlotOf(line')])
          /\ IF AllSlotsFilled(AddressedArtifact(builds, line'))
             THEN Finalized(AddressedArtifact(builds, line'), line', result',
                            emitted', builds')
             ELSE FatalEnd(line', result', emitted', builds')
      ]_vars

\* An artifact declared with two files was sent two file lines for slot 0 and
\* then its end line: the call panicked on the empty slot 1.
C10_Witness ==
    /\ ~result.ok
    /\ result.panic = <<"called Option::unwrap() on a None value">>
    /\ Len(line) = 5
    /\ line[5] = "end"
    /\ emitted = <<>>
    /\ SlotOf(line) \in DOMAIN fed
    /\ WroteSlotTwice(fed[SlotOf(line)])

----------------------------------------------------------------------------
(* C11 *)

\* The line l is a file line, with a slot index in range and a name, for an
\* artifact decoder in ListingFiles with remaining count > 0.
FileLineAccepted(blds, l) ==
    /\ Len(l) >= 7
    /\ l[2] /= ""
    /\ BuildStage(blds, l[2]) = "ListingArtifacts"
    /\ l[3] = "artifact"
    /\ parse_usize(l[4]) /= None
    /\ parse_usize(l[4])[1] < Len(blds[l[2]].artifacts)
    /\ AddressedArtifact(blds, l).tag = "ListingFiles"
    /\ AddressedArtifact(blds, l).count > 0
    /\ l[5] = "file"
    /\ parse_usize(l[6]) /= None
    /\ parse_usize(l[6])[1] < Len(AddressedArtifact(blds, l).files)

\* The decoder after the write: the slot holds the new name, the remaining
\* count is one less, everything else is as before.
AfterWrite(decoder, l) ==
    [decoder EXCEPT !.count = @ - 1,
                    !.files[parse_usize(l[6])[1] + 1] = <<l[7]>>]

\* C11: in ListingFiles with remaining count > 0 a file line is accepted
\* whether its slot is empty or already filled, in any index order: the call
\* succeeds and emits nothing, the slot holds the new name (replacing the old
\* one) and the remaining count is one less.
C11_OverwriteAccepted ==
    [][ FileLineAccepted(builds, line') =>
          /\ result'.ok
          /\ emitted' = <<>>
          /\ BuildStage(builds', line'[2]) = "ListingArtifacts"
          /\ AddressedArtifact(builds', line')
             = AfterWrite(AddressedArtifact(builds, line'), line')
          /\ \A i \in DOMAIN builds[line'[2]].artifacts :
               i /= parse_usize(line'[4])[1] + 1 =>
                 builds'[line'[2]].artifacts[i] = builds[line'[2]].artifacts[i]
      ]_vars

\* Slot 0 of an artifact declared with two files was written twice: it holds
\* the second name, slot 1 is empty and the remaining count is 0.
C11_Witness ==
    /\ result.ok
    /\ Len(line) = 7
    /\ line[5] = "file"
    /\ SlotOf(line) \in DOMAIN fed
    /\ WroteSlotTwice(fed[SlotOf(line)])
    /\ BuildStage(builds, line[2]) = "ListingArtifacts"
    /\ AddressedArtifact(builds, line).tag = "ListingFiles"
    /\ AddressedArtifact(builds, line).count = 0
    /\ AddressedArtifact(builds, line).files = <<<<"out.log">>, <<>>>>

----------------------------------------------------------------------------
(* C12 *)

\* The remaining count of build b in the map blds; a build is Done at the
\* moment its count reaches 0.
RemainingIn(blds, b) ==
    IF blds[b].tag = "ListingArtifacts" THEN blds[b].count ELSE 0

\* The line l is delegated to an artifact slot of a build in ListingArtifacts.
Delegated(blds, l) ==
    /\ Len(l) >= 4
    /\ l[2] /= ""
    /\ BuildStage(blds, l[2]) = "ListingArtifacts"
    /\ l[3] = "artifact"
    /\ parse_usize(l[4]) /= None
    /\ parse_usize(l[4])[1] < Len(blds[l[2]].artifacts)

\* The slot's artifact decoder was not Done before the call and is after it.
BecameDone(before, after, l) ==
    /\ SlotArtifactIn(before, l[2], parse_usize(l[4])[1]) = None
    /\ SlotArtifactIn(after, l[2], parse_usize(l[4])[1]) /= None

\* C12: a successful call on a line delegated to an artifact slot lowers the
\* build's remaining count by exactly one when the artifact decode returned
\* Done (the slot, not Done before, is Done after, which happens once per
\* slot), and leaves it unchanged when the artifact stays Partial; a global
\* line changes no count.
C12_CountFollowsCompletions ==
    [][ /\ (Delegated(builds, line') /\ result'.ok) =>
             /\ BuildStage(builds', line'[2]) \in {"ListingArtifacts", "Done"}
             /\ RemainingIn(builds', line'[2])
                = RemainingIn(builds, line'[2])
                  - (IF BecameDone(builds, builds', line') THEN 1 ELSE 0)
             /\ BecameDone(builds, builds', line')
                <=> (emitted' /= <<>> /\ emitted'[1].kind = "Artifact")
             /\ SlotArtifactIn(builds, line'[2], parse_usize(line'[4])[1])
                = None
        /\ (Len(line') >= 2 /\ line'[2] = "") =>
             \A b \in DOMAIN builds :
                 b \in DOMAIN builds'
                 /\ RemainingIn(builds', b) = RemainingIn(builds, b)
      ]_vars

\* A build declared with two artifacts has completed slot 1 and not slot 0:
\* its remaining count went from 2 to 1 in the call that read slot 1's end.
C12_Witness ==
    /\ result.ok
    /\ IsArtifactLine(line)
    /\ line[4] = "1"
    /\ Len(line) = 5
    /\ line[5] = "end"
    /\ declared[line[2]] = "2"
    /\ builds[line[2]].tag = "ListingArtifacts"
    /\ builds[line[2]].count = 1
    /\ SlotArtifact(line[2], 1) /= None
    /\ SlotArtifact(line[2], 0) = None
    /\ \E key \in DOMAIN fed : key[2] = 0

----------------------------------------------------------------------------
(* C13 *)

BuildRank(blds, b) ==
    CASE BuildStage(blds, b) = "Root" -> 0
      [] BuildStage(blds, b) = "ListingArtifacts" -> 1
      [] BuildStage(blds, b) = "Done" -> 2

\* The artifact decoder of slot i of build b: the slot's decoder while the
\* build is listing (Root for an empty slot), Done with its Artifact once the
\* build has taken it.
SlotDecoderIn(blds, b, i) ==
    IF blds[b].tag = "Done"
    THEN [tag |-> "Done", artifact |-> blds[b].build.artifacts[i]]
    ELSE get_or_insert(blds[b].artifacts[i])

ArtifactRank(decoder) ==
    CASE decoder.tag = "Root" -> 0
      [] decoder.tag = "BuilderId" -> 1
      [] decoder.tag = "Id" -> 2
      [] decoder.tag = "String" -> 3
      [] decoder.tag = "ListingFiles" -> 4
      [] decoder.tag = "Done" -> 5

SlotsIn(blds, b) ==
    IF blds[b].tag = "Done" THEN DOMAIN blds[b].build.artifacts
    ELSE IF blds[b].tag = "ListingArtifacts" THEN DOMAIN blds[b].artifacts
    ELSE {}

ArtifactForward(before, after) ==
    /\ ArtifactRank(after) >= ArtifactRank(before)
    /\ (before.tag = "ListingFiles" /\ after.tag = "ListingFiles") =>
         after.count <= before.count
    /\ before.tag = "Done" => after = before

\* No decoder of the map before is at an earlier stage in the map after.
Forward(before, after) ==
    \A b \in DOMAIN before :
        /\ b \in DOMAIN after
        /\ BuildRank(after, b) >= BuildRank(before, b)
        /\ SlotsIn(before, b) \subseteq SlotsIn(after, b)
        /\ \A i \in SlotsIn(before, b) :
             ArtifactForward(SlotDecoderIn(before, b, i),
                             SlotDecoderIn(after, b, i))

\* C13: decoder state only moves forward: in no call does a build decoder's
\* stage decrease in the order Root, ListingArtifacts, Done, or an artifact
\* decoder's stage decrease in the order Root, BuilderId, Id, String,
\* ListingFiles, Done, or the remaining count of a ListingFiles decoder
\* increase; and no successful call leaves a Done decoder other than Done.
C13_NeverBackward ==
    [][ /\ Forward(builds, builds')
        /\ result'.ok =>
             \A b \in DOMAIN builds :
                 builds[b].tag = "Done" => builds'[b] = builds[b]
      ]_vars

\* The part of C13 that the calls that return satisfy: each of them moves
\* every decoder forward or leaves it as it was.
ReturningCallsMoveForward ==
    [][ result'.ok => Forward(builds, builds') ]_vars

----------------------------------------------------------------------------
(* C14 *)

\* The line l is delegated to an artifact decoder that is already Done, in a
\* build that is still listing.
ToDoneArtifact(blds, l) ==
    /\ Delegated(blds, l)
    /\ AddressedArtifact(blds, l).tag = "Done"

\* The line l reaches a build decoder that is already Done.
ToDoneBuild(blds, l) ==
    /\ Len(l) >= 2
    /\ l[2] /= ""
    /\ BuildStage(blds, l[2]) = "Done"

\* C14: a call delivered to an artifact decoder that is already Done (a
\* further line for a completed slot of a build that is still listing) and a
\* call delivered to a build decoder that is already Done both panic, and
\* neither emits an event.
C14_DoneIsFatal ==
    [][ /\ ToDoneArtifact(builds, line') =>
             /\ ~result'.ok
             /\ Len(line') >= 5 =>
                  result'.panic = <<"already finished the artifact">>
             /\ emitted' = <<>>
             /\ events' = events
        /\ ToDoneBuild(builds, line') =>
             /\ ~result'.ok
             /\ Len(line') >= 3 => result'.panic = <<"not yet implemented">>
             /\ emitted' = <<>>
             /\ events' = events
      ]_vars

\* Slot 0 of a build declared with two artifacts was complete, slot 1 was
\* not, and one more line was sent to slot 0.
C14_Witness ==
    /\ ~result.ok
    /\ result.panic = <<"already finished the artifact">>
    /\ IsArtifactLine(line)
    /\ line[4] = "0"
    /\ declared[line[2]] = "2"
    /\ Declares(SubSeq(fed[SlotOf(line)], 1, Len(fed[SlotOf(line)]) - 1))
    /\ emitted = <<>>
    /\ Len(events) >= 1

----------------------------------------------------------------------------
(* C15 *)

\* The line l carries a build name.
BuildScoped(l) == Len(l) >= 2 /\ l[2] /= ""

\* The key set of the mapping only grows, by the name of a build-scoped line
\* that was not a key before.
KeysGrow(before, after, l) ==
    /\ DOMAIN before \subseteq DOMAIN after
    /\ DOMAIN after
       = DOMAIN before \cup (IF BuildScoped(l) THEN {l[2]} ELSE {})

\* C15: the build mapping starts empty; every call keeps every key, a
\* build-scoped line adds the entry of its build name exactly when the name
\* is not yet a key, no other call adds one; and the entry of a build that is
\* Done stays in the mapping in state Done.
C15_MappingGrowsDoneStays ==
    [][ /\ line = <<>> => builds = <<>>
        /\ KeysGrow(builds, builds', line')
        /\ \A b \in DOMAIN builds :
             builds[b].tag = "Done" =>
               b \in DOMAIN builds' /\ builds'[b].tag = "Done"
      ]_vars

\* The part of C15 about the key set, which every call satisfies, the calls
\* that panic included.
KeySetNeverShrinks ==
    [][ (line = <<>> => builds = <<>>) /\ KeysGrow(builds, builds', line') ]_vars

----------------------------------------------------------------------------
(* C16 *)

\* The decoders stored under the other build names are as they were.
OtherBuildsUnchanged(before, after, l) ==
    \A b \in DOMAIN before \ {l[2]} :
        b \in DOMAIN after /\ after[b] = before[b]

\* The artifact decoders of the other slots of the line's build are as they
\* were.
OtherSlotsUnchanged(before, after, l) ==
    \A i \in SlotsIn(before, l[2]) \ {parse_usize(l[4])[1] + 1} :
        /\ i \in SlotsIn(after, l[2])
        /\ SlotDecoderIn(after, l[2], i) = SlotDecoderIn(before, l[2], i)

\* C16: a build-scoped line for build name X leaves the decoder of every
\* other build name as it was, and a line of X for artifact slot i leaves the
\* artifact decoder of every other slot of X as it was.
C16_OnlyAddressedDecoderChanges ==
    [][ BuildScoped(line') =>
          /\ OtherBuildsUnchanged(builds, builds', line')
          /\ Delegated(builds, line') =>
               OtherSlotsUnchanged(builds, builds', line')
      ]_vars

\* The part of C16 that the calls that return satisfy.
ReturningCallsChangeOneDecoder ==
    [][ (BuildScoped(line') /\ result'.ok) =>
          /\ OtherBuildsUnchanged(builds, builds', line')
          /\ Delegated(builds, line') =>
               OtherSlotsUnchanged(builds, builds', line')
      ]_vars

\* The part of C16 about the other build names, which every call satisfies.
OtherBuildsNeverChange ==
    [][ BuildScoped(line') => OtherBuildsUnchanged(builds, builds', line') ]_vars

----------------------------------------------------------------------------
(* C17 *)

\* C17: the Root placeholder that try_decode swaps in is not what a decoder
\* holds after the call: a call that returns leaves the build decoder, and
\* the artifact decoder the line was delegated to, in the computed state (not
\* Root), and a call that fails leaves every decoder in the state it held
\* before the call.
C17_PlaceholderNeverRemains ==
    [][ /\ (BuildScoped(line') /\ result'.ok) =>
             /\ builds'[line'[2]].tag /= "Root"
             /\ Delegated(builds, line') =>
                  SlotDecoderIn(builds', line'[2],
                                parse_usize(line'[4])[1] + 1).tag /= "Root"
        /\ ~result'.ok =>
             \A b \in DOMAIN builds : builds'[b] = builds[b]
      ]_vars

\* The part of C17 about the calls that return.
ReturningCallsLeaveNoPlaceholder ==
    [][ (BuildScoped(line') /\ result'.ok) =>
          /\ builds'[line'[2]].tag /= "Root"
          /\ Delegated(builds, line') =>
               SlotDecoderIn(builds', line'[2],
                             parse_usize(line'[4])[1] + 1).tag /= "Root"
      ]_vars

\* A call that fails on a line with no token after the build name panics
\* before the swap and leaves the build decoder as it was.
FailureBeforeSwapKeepsState ==
    [][ (BuildScoped(line') /\ Len(line') = 2) =>
          /\ ~result'.ok
          /\ \A b \in DOMAIN builds : builds'[b] = builds[b]
      ]_vars

----------------------------------------------------------------------------
(* C18 *)

\* Build finalization took from an empty slot (Option::unwrap) or from a
\* slot that was not Done (Artifact::try_from, Result::unwrap).
FinalizationPanicked ==
    /\ ~result.ok
    /\ \/ result.panic = UnwrapNone
       \/ result.panic = UnwrapErr \o <<"artifact not done yet">>

\* C18: in every ListingArtifacts state of a build declared with N artifacts
\* there are N slots and the remaining count is N minus the number of slots
\* holding a Done artifact decoder, so a count of 0 means every slot is Done;
\* finalization never takes from an empty or non-Done slot, and a Done build
\* holds N artifacts.
C18_CountIsOutstandingSlots ==
    /\ \A b \in DOMAIN builds :
         /\ builds[b].tag = "ListingArtifacts" =>
              /\ b \in DOMAIN declared
              /\ parse_usize(declared[b]) /= None
              /\ Len(builds[b].artifacts) = DeclaredCount(b)
              /\ builds[b].count
                 = DeclaredCount(b) - Cardinality(DoneSlots(b))
              /\ builds[b].count = 0 => DeclaredCount(b) = 0
         /\ builds[b].tag = "Done" =>
              /\ b \in DOMAIN declared
              /\ Len(builds[b].build.artifacts) = DeclaredCount(b)
              /\ DeclaredCount(b) > 0
    /\ ~FinalizationPanicked

\* A build declared with two artifacts holds a Done decoder in slot 0 and a
\* decoder still listing files in slot 1: its remaining count is 1.
C18_Witness ==
    /\ result.ok
    /\ "b1" \in DOMAIN builds
    /\ builds["b1"].tag = "ListingArtifacts"
    /\ declared["b1"] = "2"
    /\ builds["b1"].count = 1
    /\ builds["b1"].artifacts[1] /= None
    /\ builds["b1"].artifacts[1][1].tag = "Done"
    /\ builds["b1"].artifacts[2] /= None
    /\ builds["b1"].artifacts[2][1].tag = "ListingFiles"

----------------------------------------------------------------------------
(* C19 *)

\* The line l is the first line of its build and declares artifact-count 0.
DeclaresNoArtifacts(blds, l) ==
    /\ Len(l) >= 4
    /\ l[2] /= ""
    /\ l[2] \notin DOMAIN blds
    /\ l[3] = "artifact-count"
    /\ l[4] = "0"

\* The build of the line l was declared with artifact-count 0 by its first
\* line.
ForEmptyBuild(blds, l) ==
    /\ BuildScoped(l)
    /\ l[2] \in DOMAIN blds
    /\ l[2] \in DOMAIN declared
    /\ declared[l[2]] = "0"

\* C19: the first line of a build, declaring artifact-count 0, leaves the
\* build in ListingArtifacts with remaining count 0 and no slots and emits
\* nothing; every later line for that build name panics (an artifact line
\* with any slot index on the index being out of range) and emits nothing;
\* the build never becomes Done and no build-completion event is emitted
\* for it.
C19_EmptyBuildNeverCompletes ==
    [][ /\ DeclaresNoArtifacts(builds, line') =>
             /\ result'.ok
             /\ emitted' = <<>>
             /\ builds'[line'[2]]
                = [tag |-> "ListingArtifacts", count |-> 0, artifacts |-> <<>>]
        /\ ForEmptyBuild(builds, line') =>
             /\ builds[line'[2]]
                = [tag |-> "ListingArtifacts", count |-> 0, artifacts |-> <<>>]
             /\ ~result'.ok
             /\ IsArtifactLine(line') => result'.panic = IndexOutOfBounds
             /\ emitted' = <<>>
             /\ builds'[line'[2]].tag /= "Done"
        /\ (\A b \in DOMAIN declared' : declared'[b] = "0") =>
             \A k \in DOMAIN events' : events'[k].kind /= "Build"
      ]_vars

\* A build declared with artifact-count 0 was sent a line for slot 0: the
\* call panicked on the slot index and no build event was ever emitted.
C19_Witness ==
    /\ ~result.ok
    /\ result.panic = IndexOutOfBounds
    /\ IsArtifactLine(line)
    /\ line[4] = "0"
    /\ line[2] \in DOMAIN declared
    /\ declared[line[2]] = "0"
    /\ \A k \in DOMAIN events : events[k].kind /= "Build"

====
